---- MODULE Spec2Model ----
(***************************************************************************)
(* A model of the ThemeProvider component of @tarxemo/react-theme          *)
(* (src/src/index.tsx).                                                    *)
(*                                                                         *)
(* The provider is a React function component.  Its hook state (theme,     *)
(* systemTheme) is updated by the setters; a render takes a snapshot of    *)
(* the hook state and derives effectiveTheme from it; the two useEffect    *)
(* callbacks then run, in source order, with the values of that render.    *)
(* The environment is the browser: localStorage, the                       *)
(* (prefers-color-scheme: dark) media query and the class list of          *)
(* document.documentElement.                                               *)
(***************************************************************************)
EXTENDS Naturals, FiniteSets, Sequences, TLC

VARIABLES
    env,            \* what the execution context offers: window, storage, matchMedia
    osDark,         \* mediaQuery.matches: the OS prefers a dark appearance
    storage,        \* localStorage: key -> stored string, or NoItem
    rootClasses,    \* document.documentElement.classList
    listeners,      \* number of registered 'change' listeners on the media query
    pc,             \* position of the provider: unmounted, in an effect, idle, crashed
    defaultTheme,   \* the defaultTheme prop of the mounted provider
    config,         \* finalConfig of the latest render
    theme,          \* useState: theme
    systemTheme,    \* useState: systemTheme
    ctx,            \* the context value of the latest render (theme, systemTheme, effectiveTheme)
    osDep,          \* dependency value the OS-preference effect last ran with
    hasCleanup,     \* the OS-preference effect returned a cleanup that is still due
    trail,          \* history: the modes passed by the current run of consecutive toggles
    choice,         \* history: the last mode chosen by setTheme or toggleTheme, the storage
                    \* key it was chosen under, and whether the latest write of the sync
                    \* effect under that key carried it
    flipped,        \* history: the OS preference flipped from light to dark in a browser
                    \* while theme was 'system' and followSystemTheme was on, and neither
                    \* setTheme nor toggleTheme has been called since
    firstRun,       \* history: the effects of the first render of the provider are running
    consumers       \* per hook, the outcome of the latest call by a consumer component

vars == <<env, osDark, storage, rootClasses, listeners, pc, defaultTheme, config,
          theme, systemTheme, ctx, osDep, hasCleanup, trail, choice, flipped,
          firstRun, consumers>>

(***************************************************************************)
(* Values                                                                  *)
(***************************************************************************)

\* type Theme = 'light' | 'dark' | 'system'
Modes == {"light", "dark", "system"}

\* localStorage.getItem returns null for an absent entry
NoItem == "NULL"

\* Strings the store may hold when the provider is constructed: the three
\* mode literals, the empty string, and a string that is no mode.
StoredStrings == Modes \cup {"", "auto"}

\* The fixed internal marker of the transition suppression.
NoTransitions == "no-transitions"

\* Storage keys in use on the origin: the default and a custom one.
Keys == {"theme", "app-theme"}

\* Length of the toggle history that is kept (three toggles and their start).
TrailLen == 4

\* The defaults of finalConfig.
DefaultConfig ==
    [lightClass |-> "light",
     darkClass |-> "dark",
     systemClass |-> "system",
     storageKey |-> "theme",
     disableTransition |-> FALSE,
     followSystemTheme |-> TRUE]

\* The config props callers pass: each is a partial record of overrides
\* (the first overrides nothing that differs from the defaults).
ConfigProps ==
    << [storageKey |-> "theme"],
       [followSystemTheme |-> FALSE],
       [lightClass |-> "light-mode", darkClass |-> "dark-mode",
        storageKey |-> "app-theme", disableTransition |-> TRUE] >>

\* { ...defaults, ...config }: a key of config overrides the default.
FinalConfig(overrides) ==
    [f \in DOMAIN DefaultConfig |->
        IF f \in DOMAIN overrides THEN overrides[f] ELSE DefaultConfig[f]]

\* Execution contexts: a browser, a browser whose storage rejects access, a
\* browser without matchMedia, and a context without window.
Envs ==
    { [window |-> TRUE,  storageOK |-> TRUE,  mediaOK |-> TRUE],
      [window |-> TRUE,  storageOK |-> FALSE, mediaOK |-> TRUE],
      [window |-> TRUE,  storageOK |-> TRUE,  mediaOK |-> FALSE],
      [window |-> FALSE, storageOK |-> FALSE, mediaOK |-> FALSE] }

\* A reading with the two appearances exchanged.
OsAppearanceInverted(dark) == IF dark THEN "light" ELSE "dark"

\* mediaQuery.matches ? 'dark' : 'light'
OsAppearance(dark) == IF dark THEN "dark" ELSE "light"

\* A derivation that always follows the OS.
EffectiveThemeAlwaysSystem(t, s) == s

\* A derivation that does not read systemTheme.
EffectiveThemeFixed(t, s) == IF t = "system" THEN "light" ELSE t

\* const effectiveTheme = theme === 'system' ? systemTheme : theme
EffectiveTheme(t, s) == IF t = "system" THEN s ELSE t

\* An updater that only alternates light and dark.
ToggleNextBinary(t) == IF t = "light" THEN "dark" ELSE "light"

\* The updater of toggleTheme.
ToggleNext(t) ==
    IF t = "light" THEN "dark"
    ELSE IF t = "dark" THEN "system"
    ELSE "light"

\* A read under the default key, whatever key is configured.
StoredItemDefaultKey(st, c) == st["theme"]

\* localStorage.getItem(finalConfig.storageKey)
StoredItem(st, c) == st[c.storageKey]

\* An initializer that reads the store without checking for window.
InitialThemeAnywhere(hasWindow, stored, dflt) ==
    IF stored = NoItem \/ stored = "" THEN dflt ELSE stored

\* An initializer that prefers the supplied default.
InitialThemeDefaultFirst(hasWindow, stored, dflt) == dflt

\* The useState initializer of theme: stored || defaultTheme in a browser,
\* defaultTheme elsewhere.  The empty string and null are falsy.
InitialTheme(hasWindow, stored, dflt) ==
    IF hasWindow
    THEN IF stored = NoItem \/ stored = "" THEN dflt ELSE stored
    ELSE dflt

\* The value object of one render.
Snapshot(t, s) ==
    [theme |-> t, systemTheme |-> s, effectiveTheme |-> EffectiveTheme(t, s)]

\* A choice of class with the two branches exchanged.
MarkerForSwapped(e, c) ==
    IF e = "dark" THEN c.lightClass
    ELSE IF e = "light" THEN c.darkClass
    ELSE c.systemClass

\* The class the sync effect adds for an effective theme.
MarkerFor(e, c) ==
    IF e = "dark" THEN c.darkClass
    ELSE IF e = "light" THEN c.lightClass
    ELSE c.systemClass

\* A removal that forgets the light class.
MarkersOfNoLight(c) == {c.darkClass, c.systemClass}

\* The classes the sync effect removes first.
MarkersOf(c) == {c.lightClass, c.darkClass, c.systemClass}

\* A write of the resolved appearance.
StoredValueResolved(c) == c.effectiveTheme

\* The value of localStorage.setItem(storageKey, theme): the theme of the render.
StoredValue(c) == c.theme

\* A suppression that ignores the flag.
SuppressAlways(classes, c) == classes \cup {NoTransitions}

\* if (disableTransition) root.classList.add('no-transitions')
Suppress(classes, c) ==
    IF c.disableTransition THEN classes \cup {NoTransitions} ELSE classes

\* if (disableTransition) root.classList.remove('no-transitions')
Unsuppress(classes, c) ==
    IF c.disableTransition THEN classes \ {NoTransitions} ELSE classes

\* The two exported hooks: useThemeContext is an alias of useTheme.
Hooks == {"useTheme", "useThemeContext"}

\* What a hook call yields when it returns nothing.
NoValue ==
    [theme |-> NoItem, systemTheme |-> NoItem, effectiveTheme |-> NoItem,
     config |-> DefaultConfig, mutators |-> {}]

\* The value object of the provider: the snapshot of the render, the two
\* mutators and the merged config.
ContextValue(snap, c) ==
    [theme |-> snap.theme, systemTheme |-> snap.systemTheme,
     effectiveTheme |-> snap.effectiveTheme,
     config |-> c, mutators |-> {"toggleTheme", "setTheme"}]

\* useContext(ThemeContext) under a provider, and outside one (the default
\* of createContext is undefined).
Provided(v) == [defined |-> TRUE, value |-> v]
NotProvided == [defined |-> FALSE, value |-> NoValue]

\* A hook that returns the context without looking at it.
UseThemeUnchecked(p) == [called |-> TRUE, threw |-> FALSE, value |-> p.value]

\* useTheme: throws when the context is undefined, returns it otherwise.
UseTheme(p) ==
    IF ~p.defined
    THEN [called |-> TRUE, threw |-> TRUE, value |-> NoValue]
    ELSE [called |-> TRUE, threw |-> FALSE, value |-> p.value]

\* export const useThemeContext = useTheme
UseThemeContext(p) == UseTheme(p)

\* The consumer components render: each calls its hook with the context p.
Consume(p) ==
    [h \in Hooks |-> IF h = "useTheme" THEN UseTheme(p) ELSE UseThemeContext(p)]

\* No consumer component has rendered.
NotConsumed ==
    [h \in Hooks |-> [called |-> FALSE, threw |-> FALSE, value |-> NoValue]]

Mounted == pc \notin {"unmounted", "crashed"}

Idle == pc = "idle"

\* React re-renders when the hook state differs from the rendered one.
Dirty == theme # ctx.theme \/ systemTheme # ctx.systemTheme

\* The provider is mounted and everything has been rendered and synchronized.
Settled == Idle /\ ~Dirty

\* Nothing has been chosen by a call yet.
NoChoice == [key |-> NoItem, theme |-> NoItem, synced |-> FALSE]

\* The choice history after a storage write of mode t under key k.
Written(ch, k, t) ==
    IF ch.key = k THEN [ch EXCEPT !.synced = (ch.theme = t)] ELSE ch

\* The dependency array of the OS-preference effect, as a comparable value.
DepOf(c) == IF c.followSystemTheme THEN "follow" ELSE "ignore"

\* The toggle history after one more mode, cut to its last TrailLen entries.
Extend(tr, t) ==
    LET full == Append(tr, t)
    IN  IF Len(full) > TrailLen THEN SubSeq(full, 2, Len(full)) ELSE full

\* No provider instance exists: its props, hook state and context value are
\* gone (they are set afresh by the next construction).
Discarded ==
    /\ defaultTheme = "light"
    /\ config = DefaultConfig
    /\ theme = "light"
    /\ systemTheme = "light"
    /\ ctx = Snapshot("light", "light")
    /\ osDep = "none"
    /\ trail = <<>>

(***************************************************************************)
(* Initial state: the page before any provider is mounted.                 *)
(***************************************************************************)
Init ==
    /\ env \in Envs
    /\ osDark \in BOOLEAN
    /\ \E k \in Keys, v \in StoredStrings \cup {NoItem} :
          storage = [x \in Keys |-> IF x = k THEN v ELSE NoItem]
    /\ rootClasses = {}
    /\ listeners = 0
    /\ pc = "unmounted"
    /\ Discarded
    /\ hasCleanup = FALSE
    /\ choice = NoChoice
    /\ flipped = FALSE
    /\ firstRun = FALSE
    /\ consumers = NotConsumed

(***************************************************************************)
(* Construction: the first render of a provider.                           *)
(***************************************************************************)

\* The first render.  In a browser the initializer of theme reads the store;
\* a store that rejects access makes getItem throw out of the render.
Mount(dflt, overrides) ==
    /\ pc = "unmounted"
    /\ LET c == FinalConfig(overrides)
           t == InitialTheme(env.window, StoredItem(storage, c), dflt)
       IN  /\ defaultTheme' = dflt
           /\ config' = c
           /\ systemTheme' = "light"
           /\ osDep' = "none"
           /\ IF env.window /\ ~env.storageOK
              THEN /\ pc' = "crashed"
                   /\ UNCHANGED <<theme, ctx, trail, firstRun, consumers>>
              ELSE /\ pc' = "os_effect"
                   /\ theme' = t
                   /\ ctx' = Snapshot(t, "light")
                   /\ trail' = <<t>>
                   /\ firstRun' = TRUE
                   /\ consumers' = Consume(Provided(ContextValue(ctx', c)))
    /\ flipped' = FALSE
    /\ UNCHANGED <<env, osDark, storage, rootClasses, listeners, hasCleanup, choice>>

(***************************************************************************)
(* The mutators of the context value and the OS-preference event.  They    *)
(* only update hook state; React renders later.                            *)
(***************************************************************************)

\* setTheme: setThemeState
SetTheme(m) ==
    /\ Idle
    /\ theme' = m
    /\ trail' = <<m>>
    /\ choice' = [key |-> config.storageKey, theme |-> m, synced |-> FALSE]
    /\ flipped' = FALSE
    /\ UNCHANGED <<env, osDark, storage, rootClasses, listeners, pc, defaultTheme,
                   config, systemTheme, ctx, osDep, hasCleanup, firstRun, consumers>>

\* toggleTheme: setThemeState with the cycling updater
ToggleTheme ==
    /\ Idle
    /\ theme' = ToggleNext(theme)
    /\ trail' = Extend(trail, theme')
    /\ choice' = [key |-> config.storageKey, theme |-> theme', synced |-> FALSE]
    /\ flipped' = FALSE
    /\ UNCHANGED <<env, osDark, storage, rootClasses, listeners, pc, defaultTheme,
                   config, systemTheme, ctx, osDep, hasCleanup, firstRun, consumers>>

\* The OS preference flips.  Every registered listener is handleChange of the
\* mounted provider and sets systemTheme from the event.
OsChange ==
    /\ pc \in {"idle", "unmounted", "crashed"}
    /\ osDark' = ~osDark
    /\ systemTheme' = IF listeners > 0 /\ Mounted
                      THEN OsAppearance(osDark')
                      ELSE systemTheme
    /\ flipped' = (/\ osDark'
                    /\ Idle
                    /\ env.window
                    /\ config.followSystemTheme
                    /\ theme = "system")
    /\ UNCHANGED <<env, storage, rootClasses, listeners, pc, defaultTheme, config,
                   theme, ctx, osDep, hasCleanup, trail, choice, firstRun, consumers>>

(***************************************************************************)
(* Renders after construction.                                             *)
(***************************************************************************)

\* React re-renders the provider because its hook state changed.
Render ==
    /\ Idle
    /\ Dirty
    /\ ctx' = Snapshot(theme, systemTheme)
    /\ consumers' = Consume(Provided(ContextValue(ctx', config)))
    /\ pc' = "os_effect"
    /\ UNCHANGED <<env, osDark, storage, rootClasses, listeners, defaultTheme, config,
                   theme, systemTheme, osDep, hasCleanup, trail, choice, flipped,
                   firstRun>>

\* The parent re-renders the provider with a (possibly different) config prop.
Rerender(overrides) ==
    /\ Idle
    /\ config' = FinalConfig(overrides)
    /\ ctx' = Snapshot(theme, systemTheme)
    /\ consumers' = Consume(Provided(ContextValue(ctx', config')))
    /\ pc' = "os_effect"
    /\ UNCHANGED <<env, osDark, storage, rootClasses, listeners, defaultTheme,
                   theme, systemTheme, osDep, hasCleanup, trail, choice, flipped,
                   firstRun>>

(***************************************************************************)
(* The OS-preference effect, dependencies [finalConfig.followSystemTheme]. *)
(***************************************************************************)

\* A cleanup that leaves the listener registered.
AfterCleanupLeak == listeners

\* Registered listeners after the pending cleanup of the effect has run.
AfterCleanup == IF hasCleanup THEN listeners - 1 ELSE listeners

\* The effect is skipped when its dependency is unchanged.  Otherwise the
\* cleanup of its previous run is called and the body runs: it returns at
\* once without window and does nothing with the flag off; with the flag on
\* it queries matchMedia (a TypeError when there is none), sets systemTheme
\* and subscribes.
OsEffect ==
    /\ pc = "os_effect"
    /\ IF osDep = DepOf(config)
       THEN /\ pc' = "sync_begin"
            /\ UNCHANGED <<listeners, hasCleanup, systemTheme, osDep>>
       ELSE /\ osDep' = DepOf(config)
            /\ IF ~env.window \/ ~config.followSystemTheme
               THEN /\ listeners' = AfterCleanup
                    /\ hasCleanup' = FALSE
                    /\ pc' = "sync_begin"
                    /\ UNCHANGED systemTheme
               ELSE IF ~env.mediaOK
               THEN /\ listeners' = AfterCleanup
                    /\ hasCleanup' = FALSE
                    /\ pc' = "crashed"
                    /\ UNCHANGED systemTheme
               ELSE /\ systemTheme' = OsAppearance(osDark)
                    /\ listeners' = AfterCleanup + 1
                    /\ hasCleanup' = TRUE
                    /\ pc' = "sync_begin"
    /\ UNCHANGED <<env, osDark, storage, rootClasses, defaultTheme, config, theme,
                   ctx, trail, choice, flipped, firstRun, consumers>>

(***************************************************************************)
(* The synchronization effect, one action per statement.  It runs after    *)
(* every render (finalConfig is a new object each time) with the theme and *)
(* effectiveTheme of that render.                                          *)
(***************************************************************************)

\* if (typeof window === 'undefined') return;
\* if (disableTransition) root.classList.add('no-transitions')
SyncBegin ==
    /\ pc = "sync_begin"
    /\ IF ~env.window
       THEN /\ pc' = "idle"
            /\ firstRun' = FALSE
            /\ UNCHANGED rootClasses
       ELSE /\ pc' = "sync_remove"
            /\ rootClasses' = Suppress(rootClasses, config)
            /\ UNCHANGED firstRun
    /\ UNCHANGED <<env, osDark, storage, listeners, defaultTheme, config, theme,
                   systemTheme, ctx, osDep, hasCleanup, trail, choice, flipped,
                   consumers>>

\* root.classList.remove(lightClass, darkClass, systemClass)
SyncRemove ==
    /\ pc = "sync_remove"
    /\ rootClasses' = rootClasses \ MarkersOf(config)
    /\ pc' = "sync_add"
    /\ UNCHANGED <<env, osDark, storage, listeners, defaultTheme, config, theme,
                   systemTheme, ctx, osDep, hasCleanup, trail, choice, flipped,
                   firstRun, consumers>>

\* root.classList.add(the class of effectiveTheme)
SyncAdd ==
    /\ pc = "sync_add"
    /\ rootClasses' = rootClasses \cup {MarkerFor(ctx.effectiveTheme, config)}
    /\ pc' = "sync_store"
    /\ UNCHANGED <<env, osDark, storage, listeners, defaultTheme, config, theme,
                   systemTheme, ctx, osDep, hasCleanup, trail, choice, flipped,
                   firstRun, consumers>>

\* localStorage.setItem(storageKey, theme); it throws when the store rejects access
SyncStore ==
    /\ pc = "sync_store"
    /\ IF env.storageOK
       THEN /\ storage' = [storage EXCEPT ![config.storageKey] = StoredValue(ctx)]
            /\ choice' = Written(choice, config.storageKey, ctx.theme)
            /\ pc' = "sync_end"
       ELSE /\ pc' = "crashed"
            /\ UNCHANGED <<storage, choice>>
    /\ UNCHANGED <<env, osDark, rootClasses, listeners, defaultTheme, config, theme,
                   systemTheme, ctx, osDep, hasCleanup, trail, flipped, firstRun,
                   consumers>>

\* if (disableTransition) { force repaint; root.classList.remove('no-transitions') }
SyncEnd ==
    /\ pc = "sync_end"
    /\ rootClasses' = Unsuppress(rootClasses, config)
    /\ pc' = "idle"
    /\ firstRun' = FALSE
    /\ UNCHANGED <<env, osDark, storage, listeners, defaultTheme, config, theme,
                   systemTheme, ctx, osDep, hasCleanup, trail, choice, flipped,
                   consumers>>

(***************************************************************************)
(* Teardown: the cleanup of the OS-preference effect runs.                 *)
(***************************************************************************)
Unmount ==
    /\ Idle
    /\ listeners' = AfterCleanup
    /\ hasCleanup' = FALSE
    /\ pc' = "unmounted"
    /\ defaultTheme' = "light"
    /\ config' = DefaultConfig
    /\ theme' = "light"
    /\ systemTheme' = "light"
    /\ ctx' = Snapshot("light", "light")
    /\ osDep' = "none"
    /\ trail' = <<>>
    /\ flipped' = FALSE
    /\ consumers' = NotConsumed
    /\ UNCHANGED <<env, osDark, storage, rootClasses, choice, firstRun>>

(***************************************************************************)
(* Consumer components rendered with no ThemeProvider above them.          *)
(***************************************************************************)
RenderOutside ==
    /\ pc = "unmounted"
    /\ consumers' = Consume(NotProvided)
    /\ UNCHANGED <<env, osDark, storage, rootClasses, listeners, pc, defaultTheme,
                   config, theme, systemTheme, ctx, osDep, hasCleanup, trail, choice,
                   flipped, firstRun>>

Next ==
    \/ \E d \in Modes, i \in DOMAIN ConfigProps : Mount(d, ConfigProps[i])
    \/ \E m \in Modes : SetTheme(m)
    \/ ToggleTheme
    \/ OsChange
    \/ Render
    \/ \E i \in DOMAIN ConfigProps : Rerender(ConfigProps[i])
    \/ OsEffect
    \/ SyncBegin
    \/ SyncRemove
    \/ SyncAdd
    \/ SyncStore
    \/ SyncEnd
    \/ Unmount
    \/ RenderOutside

Spec == Init /\ [][Next]_vars

\* React runs a scheduled render and the effects of a committed render; the
\* calls of the application and the events of the OS need not happen.
EffectStep ==
    OsEffect \/ SyncBegin \/ SyncRemove \/ SyncAdd \/ SyncStore \/ SyncEnd

FairSpec == Spec /\ WF_vars(Render) /\ WF_vars(EffectStep)

(***************************************************************************)
(* Properties                                                              *)
(***************************************************************************)

\* A browser context in which storage and matchMedia work.
Browser == env.window /\ env.storageOK /\ env.mediaOK

\* C1: the effectiveTheme of every context value is the systemTheme of that
\* value when its theme is 'system' and its theme otherwise; and once the
\* provider has settled it is that function of the current hook state, not
\* of an earlier value of theme or systemTheme.
C1_EffectiveIsDerived ==
    /\ ctx.effectiveTheme =
          (IF ctx.theme = "system" THEN ctx.systemTheme ELSE ctx.theme)
    /\ Settled =>
          ctx.effectiveTheme = (IF theme = "system" THEN systemTheme ELSE theme)

\* C1 witness: settled on 'system' after two toggles, resolved to the dark OS.
C1_Witness ==
    /\ Settled
    /\ Len(trail) >= 3
    /\ theme = "system"
    /\ systemTheme = "dark"
    /\ ctx.effectiveTheme = "dark"

\* The marker classes of the current configuration on the document root.
LightOnRoot == config.lightClass \in rootClasses
DarkOnRoot == config.darkClass \in rootClasses
SystemOnRoot == config.systemClass \in rootClasses

\* C2: once a state change has been synchronized in a browser, exactly one
\* of lightClass and darkClass is on the document root and systemClass is not.
C2_ExactlyOneMarker ==
    (Settled /\ env.window) =>
        /\ LightOnRoot # DarkOnRoot
        /\ ~SystemOnRoot

\* C3: once synchronized in a browser, the value stored under the configured
\* key is the selected mode itself ('system' stays 'system' whatever the OS
\* prefers), and an OS-preference flip leaves the store as it is.
C3_StoreHoldsMode ==
    /\ [](Settled /\ env.window => storage[config.storageKey] = theme)
    /\ [][osDark' # osDark => storage' = storage]_vars

\* C3 witness: 'system' selected by a call, synchronized while the OS prefers dark.
C3_Witness ==
    /\ Settled
    /\ env.window
    /\ trail = <<"system">>
    /\ theme = "system"
    /\ ctx.effectiveTheme = "dark"
    /\ osDark
    /\ storage[config.storageKey] = "system"

\* The cycle of toggleTheme as the documentation states it.
CycleSuccessor == [light |-> "dark", dark |-> "system", system |-> "light"]

\* C4: in every run of consecutive toggles that starts from a mode, each mode
\* is followed by its successor in light -> dark -> system -> light, whatever
\* systemTheme is and whatever OS flips happened in between, and the mode
\* after three toggles is the mode they started from.
C4_ToggleCycle ==
    \A i \in 1..Len(trail) :
        trail[i] \in Modes =>
            /\ i + 1 <= Len(trail) => trail[i + 1] = CycleSuccessor[trail[i]]
            /\ i + 3 <= Len(trail) => trail[i + 3] = trail[i]

\* C4 witness: three toggles from 'dark' while the OS preference was followed
\* and ended up dark.
C4_Witness ==
    /\ Len(trail) = 4
    /\ trail[1] = "dark"
    /\ theme = "dark"
    /\ systemTheme = "dark"
    /\ listeners = 1

\* C5: after the OS preference flipped from light to dark with theme 'system'
\* and followSystemTheme on, the provider settles with effectiveTheme 'dark'
\* unless a mutator is called, the OS flips back or the provider is torn
\* down first; and with followSystemTheme off an OS flip changes neither
\* systemTheme nor the context value.
C5_FollowsOsFlip ==
    /\ flipped ~> ((Settled /\ ctx.effectiveTheme = "dark") \/ ~flipped)
    /\ [][(osDark' # osDark /\ Mounted /\ ~config.followSystemTheme)
            => (systemTheme' = systemTheme /\ ctx' = ctx)]_vars

\* C5 witness: settled on dark after the flip, with nothing called since.
C5_Witness ==
    /\ flipped
    /\ Settled
    /\ theme = "system"
    /\ ctx.effectiveTheme = "dark"

\* The step that constructs a provider in a browser.
MountStep == pc = "unmounted" /\ pc' = "os_effect" /\ env.window

\* C6: a provider constructed in a browser under the storage key of the last
\* choice starts with the chosen mode, whatever its defaultTheme, when that
\* choice had been synchronized.
C6_SurvivesReload ==
    [][(MountStep /\ choice.synced /\ choice.key = config'.storageKey)
          => theme' = choice.theme]_vars

\* C6 witness: a new provider with defaultTheme 'dark' starts on the
\* synchronized choice 'system'.
C6_Witness ==
    /\ pc = "os_effect"
    /\ osDep = "none"
    /\ env.window
    /\ choice.synced
    /\ choice.key = config.storageKey
    /\ choice.theme = "system"
    /\ defaultTheme = "dark"
    /\ theme = "system"

\* C7: a provider constructed in a browser while the store holds a mode under
\* the configured key starts with that mode; with no entry under the
\* configured key it starts with defaultTheme, whatever another key holds.
C7_StoredWins ==
    [][MountStep =>
          LET stored == storage[config'.storageKey]
          IN  /\ stored \in Modes => theme' = stored
              /\ stored = NoItem => theme' = defaultTheme']_vars

\* C7 witness: 'dark' stored under the custom key beats the default 'light'.
C7_Witness ==
    /\ pc = "os_effect"
    /\ osDep = "none"
    /\ env.window
    /\ config.storageKey = "app-theme"
    /\ storage["app-theme"] = "dark"
    /\ storage["theme"] = NoItem
    /\ defaultTheme = "light"
    /\ theme = "dark"

\* C8: a provider constructed in a browser starts with the stored value only
\* if it is one of the three mode literals and with defaultTheme otherwise,
\* and the theme of a mounted provider is always one of the three modes.
C8_StoredIsValidated ==
    /\ [][MountStep =>
            LET stored == storage[config'.storageKey]
            IN  theme' = IF stored \in Modes THEN stored ELSE defaultTheme']_vars
    /\ [](Mounted => theme \in Modes)

\* C9: a provider mounted in a browser with defaultTheme 'system', an empty
\* store, followSystemTheme on and the OS preferring dark settles with
\* effectiveTheme 'dark', darkClass alone on the root and 'system' in the
\* store, unless a call, an OS flip, a new config or teardown comes first;
\* and every settled state with theme 'system', the flag on and the OS
\* preferring dark is of that kind.
C9_Scenario == pc = "os_effect" /\ osDep = "none" /\ Browser
               /\ defaultTheme = "system" /\ theme = "system"
               /\ storage[config.storageKey] = NoItem
               /\ config.followSystemTheme /\ osDark

C9_Settled ==
    /\ Settled
    /\ ctx.effectiveTheme = "dark"
    /\ DarkOnRoot /\ ~LightOnRoot /\ ~SystemOnRoot
    /\ storage[config.storageKey] = "system"

C9_MountSystemDark ==
    /\ C9_Scenario ~>
          (C9_Settled \/ theme # "system" \/ ~osDark \/ ~Mounted
              \/ ~config.followSystemTheme)
    /\ []((Settled /\ Browser /\ theme = "system" /\ config.followSystemTheme
            /\ osDark) => C9_Settled)

\* C9 witness: the settled state of the scenario, reached from an empty store.
C9_Witness ==
    /\ C9_Settled
    /\ Browser
    /\ defaultTheme = "system"
    /\ theme = "system"
    /\ choice = NoChoice
    /\ \A k \in Keys \ {config.storageKey} : storage[k] = NoItem

\* The theme marker classes on the document root, under any configuration.
MarkersOnRoot(classes) == classes \ {NoTransitions}

\* C10: with disableTransition on, 'no-transitions' is on the root at every
\* point of a run of the sync effect from before the marker removal until
\* after the storage write, every step that changes a marker class or the
\* store happens under it, and it is absent outside the run; with
\* disableTransition off it is never on the root.
C10_TransitionSuppression ==
    /\ [](/\ (config.disableTransition
               /\ pc \in {"sync_remove", "sync_add", "sync_store", "sync_end"})
              => NoTransitions \in rootClasses
          /\ pc \in {"unmounted", "os_effect", "sync_begin", "idle"}
              => NoTransitions \notin rootClasses
          /\ ~config.disableTransition => NoTransitions \notin rootClasses)
    /\ [][(/\ config.disableTransition
            /\ \/ MarkersOnRoot(rootClasses') # MarkersOnRoot(rootClasses)
               \/ storage' # storage)
            => (NoTransitions \in rootClasses /\ NoTransitions \in rootClasses')]_vars

\* C10 witness: the markers have been swapped and the store is about to be
\* written, all under 'no-transitions'.
C10_Witness ==
    /\ pc = "sync_store"
    /\ config.disableTransition
    /\ NoTransitions \in rootClasses
    /\ DarkOnRoot
    /\ ~LightOnRoot
    /\ storage[config.storageKey] # ctx.theme

\* C11: in a browser the number of registered 'change' listeners is 1 while
\* a mounted provider has followSystemTheme on and 0 otherwise (none after
\* teardown); there are never two; a listener is added only when there is
\* none and the flag is on, and removed only when the flag has been turned
\* off or the provider is torn down.
C11_OneListener ==
    /\ [](/\ listeners <= 1
          /\ pc \in {"unmounted", "crashed"} => listeners = 0
          /\ (Idle /\ env.window) =>
                listeners = (IF config.followSystemTheme THEN 1 ELSE 0))
    /\ [][/\ listeners' > listeners =>
               (listeners = 0 /\ listeners' = 1 /\ config.followSystemTheme)
          /\ listeners' < listeners =>
               (pc' = "unmounted" \/ ~config.followSystemTheme)]_vars

\* C11 witness: the flag is off and no listener is left, after a period with
\* the flag on in which the dark OS preference was observed.
C11_Witness ==
    /\ Idle
    /\ env.window
    /\ ~config.followSystemTheme
    /\ listeners = 0
    /\ systemTheme = "dark"

\* C12: whenever followSystemTheme is off on a mounted provider in a browser,
\* systemTheme is 'light', so a settled theme 'system' resolves to 'light',
\* and an OS flip does not change systemTheme.
C12_DisabledMeansLight ==
    /\ []((Idle /\ env.window /\ ~config.followSystemTheme) =>
            /\ systemTheme = "light"
            /\ (Settled /\ theme = "system") => ctx.effectiveTheme = "light")
    /\ [][(osDark' # osDark /\ Mounted /\ ~config.followSystemTheme)
            => systemTheme' = systemTheme]_vars

\* C13: in a browser whose storage rejects access, construction and the
\* mutators raise no error.
C13_StorageFailureTolerated ==
    (env.window /\ ~env.storageOK) => pc # "crashed"

\* C14: in a browser without the OS-preference query, a provider raises no
\* error, registers no listener and keeps systemTheme 'light'.
C14_NoMediaQueryTolerated ==
    (env.window /\ ~env.mediaOK) =>
        /\ pc # "crashed"
        /\ listeners = 0
        /\ systemTheme = "light"

\* C15: without window, construction does not fail and starts with exactly
\* defaultTheme whatever the store holds, and no step ever changes the
\* store, the root classes or the listeners.
C15_NoWindowNoEffects ==
    /\ [](~env.window => (pc # "crashed" /\ listeners = 0))
    /\ [][~env.window =>
            /\ storage' = storage
            /\ rootClasses' = rootClasses
            /\ listeners' = listeners
            /\ (pc = "unmounted" /\ pc' # "unmounted") =>
                  (pc' = "os_effect" /\ theme' = defaultTheme')]_vars

\* C15 witness: a provider without window runs on its default 'light' after
\* its effects, while the store holds 'dark' under its key.
C15_Witness ==
    /\ ~env.window
    /\ Idle
    /\ storage[config.storageKey] = "dark"
    /\ defaultTheme = "light"
    /\ theme = "light"
    /\ choice = NoChoice
    /\ rootClasses = {}

\* C16: under a mounted provider a call of useTheme or useThemeContext does
\* not throw and returns the theme, systemTheme and effectiveTheme of the
\* latest render, both mutators and the merged config; a call with no
\* provider above it throws and returns nothing.
C16_HookScope ==
    \A h \in Hooks :
        /\ Mounted =>
              /\ consumers[h].called
              /\ ~consumers[h].threw
              /\ consumers[h].value =
                    [theme |-> ctx.theme, systemTheme |-> ctx.systemTheme,
                     effectiveTheme |-> ctx.effectiveTheme, config |-> config,
                     mutators |-> {"toggleTheme", "setTheme"}]
        /\ (pc = "unmounted" /\ consumers[h].called) =>
              /\ consumers[h].threw
              /\ consumers[h].value = NoValue

\* C16 witness: both hooks have thrown for consumers rendered after a
\* provider was torn down (its marker class is still on the root).
C16_Witness ==
    /\ pc = "unmounted"
    /\ rootClasses # {}
    /\ \A h \in Hooks : consumers[h].called /\ consumers[h].threw

\* All the class names any configuration uses as a theme marker.
AllMarkerClasses ==
    UNION {MarkersOf(FinalConfig(ConfigProps[i])) : i \in DOMAIN ConfigProps}

\* C17: after every run of the sync effect in a browser the root carries at
\* most one theme marker class, the markers of earlier configurations included.
C17_AtMostOneMarker ==
    (Idle /\ env.window) => Cardinality(rootClasses \cap AllMarkerClasses) <= 1

\* C18: the mode a run of the sync effect writes to the store is the
\* selected mode, and the marker class on the root after that run is the
\* one for the effective appearance derived from the written mode and the
\* systemTheme of the same render.
C18_ConsistentPair ==
    [][(pc = "sync_store" /\ pc' = "sync_end") =>
          LET m == storage'[config.storageKey]
              e == IF m = "system" THEN ctx.systemTheme ELSE m
          IN  /\ m = theme
              /\ e = "dark" => (DarkOnRoot' /\ ~LightOnRoot')
              /\ e = "light" => (LightOnRoot' /\ ~DarkOnRoot')]_vars

\* C18 witness: a run after an OS flip to dark has written 'system' and
\* applied the dark class.
C18_Witness ==
    /\ pc = "sync_end"
    /\ flipped
    /\ storage[config.storageKey] = "system"
    /\ ctx.systemTheme = "dark"
    /\ DarkOnRoot
    /\ ~LightOnRoot

\* C19: while the effects of the first render run in a browser with
\* followSystemTheme on, theme 'system' and the OS preferring dark, no step
\* puts lightClass on the root, and the class the sync effect adds is
\* darkClass.
C19_FirstMarkerIsDark ==
    [][(firstRun /\ Browser /\ config.followSystemTheme /\ theme = "system"
          /\ osDark) =>
            /\ LightOnRoot' => LightOnRoot
            /\ pc = "sync_add" => DarkOnRoot']_vars

\* C20: a step in which the OS preference flips changes neither theme, the
\* store, the context value nor the root classes; theme of a mounted
\* provider changes only in a step of setTheme or toggleTheme; and a settled
\* theme 'light' or 'dark' is the effectiveTheme and decides the marker
\* class whatever the OS prefers.
C20_OsChangeFrame ==
    /\ [][osDark' # osDark =>
            /\ theme' = theme
            /\ storage' = storage
            /\ ctx' = ctx
            /\ rootClasses' = rootClasses]_vars
    /\ [][theme' # theme =>
            \/ pc = "unmounted"
            \/ pc' = "unmounted"
            \/ /\ pc = "idle" /\ pc' = "idle"
               /\ choice' = [key |-> config.storageKey, theme |-> theme',
                             synced |-> FALSE]]_vars
    /\ []((Settled /\ env.window /\ theme \in {"light", "dark"}) =>
            /\ ctx.effectiveTheme = theme
            /\ LightOnRoot = (theme = "light")
            /\ DarkOnRoot = (theme = "dark"))

\* C20 witness: settled on the chosen 'light' with its class and store entry
\* while the listener has reported a dark OS preference.
C20_Witness ==
    /\ Settled
    /\ env.window
    /\ listeners = 1
    /\ osDark
    /\ systemTheme = "dark"
    /\ theme = "light"
    /\ choice.theme = "light"
    /\ ctx.effectiveTheme = "light"
    /\ LightOnRoot
    /\ ~DarkOnRoot
    /\ storage[config.storageKey] = "light"

====
